---- MODULE Spec2Model ----
(***************************************************************************)
(* Markdown viewer with a content-addressed translation cache and a        *)
(* bounded-concurrency batch translator (App component).                   *)
(*                                                                         *)
(* The App component is modelled from its most recent revision, the one    *)
(* with the rolling pool, provider settings and translatingFiles.  Each    *)
(* async function is a process whose position is an `await`; the code      *)
(* between two awaits runs in one step (single-threaded event loop).       *)
(* Awaits of generateHash touch no shared state and are folded into the    *)
(* step that precedes them.  The translation cache module                  *)
(* (utils/translationCache) is modelled from its specification.            *)
(*                                                                         *)
(* Strings are modelled by naturals: 0 is the empty string, a document     *)
(* text is 10*base+version, a provider answer for text t is 1000+t.  A     *)
(* path "d/3.md" is the record [dir |-> "d", base |-> 3, ext |-> "md"];    *)
(* a file without webkitRelativePath has dir = "" and its path is its      *)
(* name.                                                                   *)
(***************************************************************************)
EXTENDS Integers, Sequences, FiniteSets, TLC

\* ---------------------------------------------------------------- bounds
\* markdown files in the folder the user can pick
NumDocs == 4
\* content versions of document 1 (the folder can be re-picked after an edit)
NumVersions == 2
\* loadFile calls that can be pending at once
MaxLoads == 1
\* gestures (clicks, drops, file dialogs) of one session
MaxGestures == 4
\* the gestures of a session in the specification with fairness
LiveGestures == 3
\* the gestures of a session in the specification over all settings
RequestGestures == 3
\* the gestures of a session in the specification with the cache-status check
CheckGestures == 4
\* the gestures of a session in the specification with a drag of four files
DropGestures == 4
\* the gestures of a session in the specification with a second scan
ScanGestures == 4

\* ------------------------------------------------------- program constants
concurrencyLimit == 3
\* '' : the empty string, initial markdownContent / translatedContent
EmptyStr == 0
\* null : what getCachedTranslation answers on a miss
MISS == 0 - 1

\* ------------------------------------------------------------ file objects
\* the last markdown file of the folder carries the long extension
ExtOf(b) == IF b = NumDocs THEN "markdown" ELSE "md"

FolderFile(b, v) ==
  [dir |-> "d", base |-> b, ext |-> ExtOf(b), text |-> 10 * b + (IF b = 1 THEN v ELSE 1)]

NotesFile == [dir |-> "d", base |-> 0, ext |-> "txt", text |-> 1]

\* files picked or dropped one by one carry no relative path
LooseFile(b, e, t) == [dir |-> "", base |-> b, ext |-> e, text |-> t]

\* the folder as the browser hands it over (unsorted), at content version v
FolderInput(v) ==
  [i \in 1..(NumDocs + 1) |->
     IF i = NumDocs + 1 THEN NotesFile ELSE FolderFile(NumDocs + 1 - i, v)]

\* what a file dialog can return: files of one directory, names distinct
FileSelectInputs ==
  { <<LooseFile(1, "md", 11)>> }

\* what a drag can carry: also two files of the same name from two folders
DropInputs ==
  { <<LooseFile(1, "md", 11)>>,
    <<LooseFile(1, "md", 11), LooseFile(1, "md", 19)>> }

\* file.webkitRelativePath || file.name
PathOf(file) == [dir |-> file.dir, base |-> file.base, ext |-> file.ext]

\* file.name
NameOf(file) == [base |-> file.base, ext |-> file.ext]

NoName == [base |-> 0, ext |-> ""]
NoPath == [dir |-> "", base |-> 0, ext |-> ""]

SeqRange(s) == { s[i] : i \in 1..Len(s) }

\* a drag of four files, the first and the last of the same name
FourFileDrop ==
  <<LooseFile(1, "md", 11), LooseFile(2, "md", 21), LooseFile(3, "md", 31),
    LooseFile(1, "md", 19)>>

AllFileObjects ==
  { FolderFile(b, v) : b \in 1..NumDocs, v \in 1..NumVersions } \cup {NotesFile}
    \cup { LooseFile(1, "md", 11), LooseFile(1, "md", 19) }
    \cup SeqRange(FourFileDrop)

AllPaths == { PathOf(f) : f \in AllFileObjects }

\* name.endsWith('.md')
EndsWithMd(file) == file.ext = "md"

\* isMarkdownFile: name.endsWith('.md') || name.endsWith('.markdown')
isMarkdownFile(file) == file.ext = "md" \/ file.ext = "markdown"

\* pathA.localeCompare(pathB) < 0
PathBefore(a, b) ==
  \/ a.base < b.base
  \/ a.base = b.base /\ a.ext = "md" /\ b.ext # "md"

\* files.sort by path (insertion sort; stable like Array.prototype.sort)
RECURSIVE InsertByPath(_, _)
InsertByPath(f, s) ==
  IF s = <<>> THEN <<f>>
  ELSE IF PathBefore(PathOf(f), PathOf(Head(s))) THEN <<f>> \o s
       ELSE <<Head(s)>> \o InsertByPath(f, Tail(s))

RECURSIVE SortByPath(_)
SortByPath(s) ==
  IF s = <<>> THEN <<>>
  ELSE InsertByPath(s[Len(s)], SortByPath(SubSeq(s, 1, Len(s) - 1)))

\* ------------------------------------------------------- translation cache
\* generateHash: a 256-bit digest; no two of the texts of the model collide
generateHash(text) == (text * 37 + 11) % 100003

\* CacheEntry: the cache is the set of the entries in durable storage
CacheEntry(documentId, digest, sourceText, translatedText) ==
  [documentId |-> documentId, hash |-> digest, source |-> sourceText,
   translated |-> translatedText]

\* the entries stored for a document
EntriesOf(store, documentId) == { e \in store : e.documentId = documentId }

\* getCachedTranslation(documentId, digest): the stored translation, when an
\* entry exists for documentId and its fingerprint equals digest; else MISS
getCachedTranslation(store, documentId, digest) ==
  IF \E e \in EntriesOf(store, documentId) : e.hash = digest
    THEN (CHOOSE e \in EntriesOf(store, documentId) : e.hash = digest).translated
    ELSE MISS

\* insert without delete-by-key: the entries of a document accumulate
saveCachedTranslationAccumulate(store, documentId, digest, sourceText, translatedText) ==
  store \cup {CacheEntry(documentId, digest, sourceText, translatedText)}

\* the entry becomes visible before its translation is written
saveCachedTranslationHalfWritten(store, documentId, digest, sourceText, translatedText) ==
  (store \ EntriesOf(store, documentId))
    \cup {CacheEntry(documentId, digest, sourceText, EmptyStr)}

\* saveCachedTranslation(documentId, digest, sourceText, translatedText):
\* replaces whatever is stored for documentId by the new entry, in one step
saveCachedTranslation(store, documentId, digest, sourceText, translatedText) ==
  (store \ EntriesOf(store, documentId))
    \cup {CacheEntry(documentId, digest, sourceText, translatedText)}

\* JavaScript truthiness of a string-or-null: null and '' are falsy
Truthy(x) == x # MISS /\ x # EmptyStr

\* what the provider answers for a text: its translation; for the texts of
\* the documents named 1 it may also answer with an empty string
ProviderAnswers(text) ==
  IF text \in { f.text : f \in { g \in AllFileObjects : g.base = 1 } }
    THEN {1000 + text, EmptyStr}
    ELSE {1000 + text}

\* ---------------------------------------------------------------- settings
Providers == {"openai", "anthropic", "gemini", "deepl"}

\* what localStorage and the build environment can hold at start-up:
\* the default provider with a key in .env, and a provider without any key
SettingsInputs ==
  { [provider |-> "openai", model |-> "gpt-4o-mini",
     keys |-> [p \in Providers |-> EmptyStr],
     env |-> [p \in Providers |-> IF p = "openai" THEN 7 ELSE EmptyStr]],
    [provider |-> "gemini", model |-> "gemini-2.0-flash-exp",
     keys |-> [p \in Providers |-> EmptyStr],
     env |-> [p \in Providers |-> IF p = "openai" THEN 7 ELSE EmptyStr]] }

\* the models the settings dialog offers for a provider (two of each list)
ModelsOf(provider) ==
  CASE provider = "openai" -> {"gpt-4o", "gpt-4o-mini"}
    [] provider = "anthropic" -> {"claude-3-5-sonnet-20241022", "claude-3-5-haiku-20241022"}
    [] provider = "gemini" -> {"gemini-2.0-flash-exp", "gemini-1.5-pro"}
    [] provider = "deepl" -> {"deepl-translate"}

\* every provider with each of its models, with and without a key in the
\* settings and in the environment
AllSettings ==
  { s \in { [provider |-> p, model |-> m,
             keys |-> [q \in Providers |-> IF q = p THEN k ELSE EmptyStr],
             env |-> [q \in Providers |-> IF q = p THEN e ELSE EmptyStr]] :
               p \in Providers, m \in UNION { ModelsOf(q) : q \in Providers },
               k \in {EmptyStr, 5}, e \in {EmptyStr, 7} } :
      s.model \in ModelsOf(s.provider) }

\* apiKeys[llmProvider], else the provider's environment variable
EffectiveApiKey(keys, envKeys, provider) ==
  IF provider \in Providers
    THEN IF keys[provider] # EmptyStr THEN keys[provider] ELSE envKeys[provider]
    ELSE EmptyStr

\* the credential of a batch: apiKeys[llmProvider], else the environment
\* variable of the provider
BatchApiKey(keys, envKeys, provider) ==
  IF provider \in DOMAIN keys /\ keys[provider] # EmptyStr
    THEN keys[provider]
    ELSE CASE provider = "openai" -> envKeys["openai"]
           [] provider = "anthropic" -> envKeys["anthropic"]
           [] provider = "gemini" -> envKeys["gemini"]
           [] provider = "deepl" -> envKeys["deepl"]
           [] OTHER -> EmptyStr

\* ------------------------------------------------------- provider adapters
\* the request an adapter sends: endpoint, credential, model and content
NoModel == ""

callOpenAI(content, apiKey, model) ==
  [endpoint |-> "api.openai.com", auth |-> apiKey, model |-> model, content |-> content]

callAnthropic(content, apiKey, model) ==
  [endpoint |-> "api.anthropic.com", auth |-> apiKey, model |-> model, content |-> content]

callGemini(content, apiKey, model) ==
  [endpoint |-> "generativelanguage.googleapis.com", auth |-> apiKey,
   model |-> model, content |-> content]

\* DeepL takes no model
callDeepL(content, apiKey) ==
  [endpoint |-> "api-free.deepl.com", auth |-> apiKey, model |-> NoModel, content |-> content]

\* default: throw new Error(`Unknown provider`)
NoRequest == [endpoint |-> "", auth |-> EmptyStr, model |-> NoModel, content |-> EmptyStr]

\* the switch of translateToKorean
SingleRequest(provider, apiKey, model, content) ==
  CASE provider = "openai" -> callOpenAI(content, apiKey, model)
    [] provider = "anthropic" -> callAnthropic(content, apiKey, model)
    [] provider = "gemini" -> callGemini(content, apiKey, model)
    [] provider = "deepl" -> callDeepL(content, apiKey)
    [] OTHER -> NoRequest

\* the batch sends every document with the provider's first model
BatchRequestDefaultModel(provider, apiKey, model, content) ==
  CASE provider = "openai" -> callOpenAI(content, apiKey, "gpt-4o")
    [] provider = "anthropic" -> callAnthropic(content, apiKey, "claude-3-5-sonnet-20241022")
    [] provider = "gemini" -> callGemini(content, apiKey, "gemini-2.0-flash-exp")
    [] provider = "deepl" -> callDeepL(content, apiKey)
    [] OTHER -> NoRequest

\* the switch of translateFile
BatchRequest(provider, apiKey, model, content) ==
  CASE provider = "openai" -> callOpenAI(content, apiKey, model)
    [] provider = "anthropic" -> callAnthropic(content, apiKey, model)
    [] provider = "gemini" -> callGemini(content, apiKey, model)
    [] provider = "deepl" -> callDeepL(content, apiKey)
    [] OTHER -> NoRequest

\* ------------------------------------------------------------------- state
VARIABLES
  markdownContent, fileName, filePath, fileList, allFiles, fileTree,
  translatedContent, isTranslating, showTranslation, isCached,
  showBatchModal, selectedFiles, cachedFiles, batchProgress,
  isBatchTranslating, translatingFiles, translatedFiles,
  llmProvider, llmModel, apiKeys, env,
  cache,
  lf, tk, ob, bt, jobs

viewVars == <<markdownContent, fileName, filePath, translatedContent,
              isTranslating, showTranslation, isCached>>
listVars == <<fileList, allFiles, fileTree>>
modalVars == <<showBatchModal, selectedFiles, cachedFiles, batchProgress,
               isBatchTranslating, translatingFiles, translatedFiles>>
settingVars == <<llmProvider, llmModel, apiKeys, env>>
procVars == <<lf, tk, ob, bt, jobs>>

vars == <<viewVars, listVars, modalVars, settingVars, cache, procVars>>

\* the number of gestures the user has made so far
VARIABLE gestures

\* the cache-status checks in flight: one per run of the effect on
\* [fileList, allFiles]
VARIABLE checks

\* a second call of openBatchTranslateModal, made while the first is scanning
VARIABLE ob2

\* history: the last gesture was refreshFileList, made while no handler and
\* no check was in flight
VARIABLE refreshedAtRest

extraVars == <<checks, ob2, refreshedAtRest>>

allVars == <<vars, gestures, extraVars>>

\* ----------------------------------------------------------- process idle
IdleTranslate == [pc |-> "idle", id |-> NoPath, text |-> EmptyStr,
                  provider |-> "", apiKey |-> EmptyStr, model |-> NoModel,
                  translated |-> EmptyStr]
IdleOpen == [pc |-> "idle", files |-> <<>>, i |-> 0, cached |-> {}, selected |-> {}]
IdleBatch == [pc |-> "idle", next |-> 0, completed |-> 0, total |-> 0,
              provider |-> "", apiKey |-> EmptyStr, model |-> NoModel]

InitApp(inputs) ==
  /\ markdownContent = EmptyStr
  /\ fileName = NoName
  /\ filePath = NoPath
  /\ fileList = <<>>
  /\ allFiles = <<>>
  /\ fileTree = <<>>
  /\ translatedContent = EmptyStr
  /\ isTranslating = FALSE
  /\ showTranslation = FALSE
  /\ isCached = FALSE
  /\ showBatchModal = FALSE
  /\ selectedFiles = {}
  /\ cachedFiles = {}
  /\ batchProgress = [current |-> 0, total |-> 0]
  /\ isBatchTranslating = FALSE
  /\ translatingFiles = {}
  /\ translatedFiles = {}
  /\ \E s \in inputs :
       /\ llmProvider = s.provider
       /\ llmModel = s.model
       /\ apiKeys = s.keys
       /\ env = s.env
  /\ cache = {}
  /\ lf = <<>>
  /\ tk = IdleTranslate
  /\ ob = IdleOpen
  /\ bt = IdleBatch
  /\ jobs = <<>>
  /\ gestures = 0
  /\ checks = <<>>
  /\ ob2 = IdleOpen
  /\ refreshedAtRest = FALSE

Init == InitApp(SettingsInputs)

\* ------------------------------------------------------------ UI guards
\* alert() blocks the event loop until it is dismissed
NoAlert ==
  /\ bt.pc \notin {"alert", "alertNoKey"}
  /\ tk.pc \notin {"alertNoKey", "alertError"}

\* the batch modal is an overlay: the page behind it takes no input
PageInteractive == NoAlert /\ ~showBatchModal

\* the sidebar is rendered when fileList or allFiles is non-empty
SidebarShown == fileList # <<>> \/ allFiles # <<>>

\* ---------------------------------------------------------------- fileTree
\* buildFileTree: files grouped under their folder; files without a folder
\* part hang off the root
buildFileTree(files) ==
  [files |-> SelectSeq(files, LAMBDA f : f.dir = ""),
   children |-> [d \in { files[i].dir : i \in 1..Len(files) } \ {""} |->
                   [name |-> d, path |-> d,
                    files |-> SelectSeq(files, LAMBDA f : f.dir = d)]]]

\* the file items of a tree
TreeFiles(tree) ==
  SeqRange(tree.files)
    \cup UNION { SeqRange(tree.children[d].files) : d \in DOMAIN tree.children }

\* the file items a tree view renders as selectable or clickable: markdown only
TreeMdFiles(tree) == { f \in TreeFiles(tree) : isMarkdownFile(f) }

\* -------------------------------------------------------------- loadFile
\* loadFile(file) up to its first await (file.text())
StartLoad(loads, file) == Append(loads, [pc |-> "reading", file |-> file])

RemoveAt(s, i) == SubSeq(s, 1, i - 1) \o SubSeq(s, i + 1, Len(s))

\* file.text() resolved: the document is shown, then the cache is asked
LoadRead(i) ==
  /\ NoAlert
  /\ i \in 1..Len(lf)
  /\ lf[i].pc = "reading"
  /\ markdownContent' = lf[i].file.text
  /\ fileName' = NameOf(lf[i].file)
  /\ filePath' = PathOf(lf[i].file)
  /\ lf' = [lf EXCEPT ![i].pc = "lookup"]
  /\ UNCHANGED <<translatedContent, isTranslating, showTranslation, isCached,
                 listVars, modalVars, settingVars, cache, tk, ob, bt, jobs>>

\* file.text() rejected with NotReadableError: the selection is dropped
LoadNotReadable(i) ==
  /\ NoAlert
  /\ i \in 1..Len(lf)
  /\ lf[i].pc = "reading"
  /\ fileList' = <<>>
  /\ allFiles' = <<>>
  /\ fileTree' = <<>>
  /\ markdownContent' = EmptyStr
  /\ fileName' = NoName
  /\ filePath' = NoPath
  /\ lf' = RemoveAt(lf, i)
  /\ UNCHANGED <<translatedContent, isTranslating, showTranslation, isCached,
                 modalVars, settingVars, cache, tk, ob, bt, jobs>>

\* file.text() rejected with another error: reported, nothing else changes
LoadError(i) ==
  /\ NoAlert
  /\ i \in 1..Len(lf)
  /\ lf[i].pc = "reading"
  /\ lf' = RemoveAt(lf, i)
  /\ UNCHANGED <<viewVars, listVars, modalVars, settingVars, cache, tk, ob, bt, jobs>>

\* the cache answered: a truthy answer is shown, anything else resets the view
LoadLookup(i) ==
  /\ NoAlert
  /\ i \in 1..Len(lf)
  /\ lf[i].pc = "lookup"
  /\ LET cachedTranslation ==
           getCachedTranslation(cache, PathOf(lf[i].file),
                                generateHash(lf[i].file.text))
     IN IF Truthy(cachedTranslation)
          THEN /\ translatedContent' = cachedTranslation
               /\ showTranslation' = TRUE
               /\ isCached' = TRUE
          ELSE /\ translatedContent' = EmptyStr
               /\ showTranslation' = FALSE
               /\ isCached' = FALSE
  /\ lf' = RemoveAt(lf, i)
  /\ UNCHANGED <<markdownContent, fileName, filePath, isTranslating,
                 listVars, modalVars, settingVars, cache, tk, ob, bt, jobs>>

\* a click on a file of the sidebar
ClickFile(file) ==
  /\ PageInteractive
  /\ SidebarShown
  /\ Len(lf) < MaxLoads
  /\ IF fileTree # <<>>
       THEN file \in TreeMdFiles(fileTree[1])
       ELSE file \in SeqRange(fileList)
  /\ lf' = StartLoad(lf, file)
  /\ UNCHANGED <<viewVars, listVars, modalVars, settingVars, cache, tk, ob, bt, jobs>>

\* ------------------------------------------------------ choosing the files
handleFileSelect(files) ==
  /\ PageInteractive
  /\ Len(lf) < MaxLoads
  /\ LET mdFiles == SelectSeq(files, EndsWithMd)
     IN /\ mdFiles # <<>>
        /\ fileList' = mdFiles
        /\ allFiles' = <<>>
        /\ fileTree' = <<>>
        /\ lf' = StartLoad(lf, mdFiles[1])
  /\ UNCHANGED <<viewVars, modalVars, settingVars, cache, tk, ob, bt, jobs>>

handleFolderSelect(files) ==
  /\ PageInteractive
  /\ Len(lf) < MaxLoads
  /\ files # <<>>
  /\ LET sortedFiles == SortByPath(files)
         mdFiles == SelectSeq(sortedFiles, isMarkdownFile)
     IN /\ allFiles' = sortedFiles
        /\ fileTree' = <<buildFileTree(sortedFiles)>>
        /\ fileList' = mdFiles
        /\ lf' = IF mdFiles # <<>> THEN StartLoad(lf, mdFiles[1]) ELSE lf
  /\ UNCHANGED <<viewVars, modalVars, settingVars, cache, tk, ob, bt, jobs>>

handleDrop(files) ==
  /\ PageInteractive
  /\ Len(lf) < MaxLoads
  /\ LET mdFiles == SelectSeq(files, EndsWithMd)
     IN /\ mdFiles # <<>>
        /\ fileList' = mdFiles
        /\ lf' = StartLoad(lf, mdFiles[1])
  /\ UNCHANGED <<allFiles, fileTree, viewVars, modalVars, settingVars, cache,
                 tk, ob, bt, jobs>>

\* ------------------------------------------------------ translateToKorean
\* filePath || fileName
DocumentId(path, name) ==
  IF path # NoPath THEN path ELSE [dir |-> "", base |-> name.base, ext |-> name.ext]

\* the translate button is rendered with the document and disabled while
\* isTranslating; the function runs up to its first awaits (hash, cache)
translateToKorean ==
  /\ PageInteractive
  /\ ~isTranslating
  /\ markdownContent # EmptyStr
  /\ isTranslating' = TRUE
  /\ isCached' = FALSE
  /\ tk' = [pc |-> "lookup", id |-> DocumentId(filePath, fileName),
            text |-> markdownContent, provider |-> llmProvider,
            apiKey |-> EffectiveApiKey(apiKeys, env, llmProvider),
            model |-> llmModel, translated |-> EmptyStr]
  /\ UNCHANGED <<markdownContent, fileName, filePath, translatedContent,
                 showTranslation, listVars, modalVars, settingVars, cache,
                 lf, ob, bt, jobs>>

\* the cache answered with a truthy translation: shown as cached
TranslateCacheHit ==
  /\ NoAlert
  /\ tk.pc = "lookup"
  /\ LET cachedTranslation == getCachedTranslation(cache, tk.id, generateHash(tk.text))
     IN /\ Truthy(cachedTranslation)
        /\ translatedContent' = cachedTranslation
        /\ showTranslation' = TRUE
        /\ isCached' = TRUE
        /\ isTranslating' = FALSE
  /\ tk' = IdleTranslate
  /\ UNCHANGED <<markdownContent, fileName, filePath, listVars, modalVars,
                 settingVars, cache, lf, ob, bt, jobs>>

\* cache miss: without a credential the request ends with an alert, with an
\* unknown provider it throws (reported by the catch block), else the
\* provider is called
TranslateCacheMiss ==
  /\ NoAlert
  /\ tk.pc = "lookup"
  /\ ~Truthy(getCachedTranslation(cache, tk.id, generateHash(tk.text)))
  /\ tk' = [tk EXCEPT !.pc = IF tk.apiKey = EmptyStr THEN "alertNoKey"
                              ELSE IF SingleRequest(tk.provider, tk.apiKey, tk.model,
                                                    tk.text) = NoRequest
                                THEN "alertError"
                              ELSE "calling"]
  /\ UNCHANGED <<viewVars, listVars, modalVars, settingVars, cache, lf, ob, bt, jobs>>

\* the provider answered: the translation goes to the cache first
TranslateProviderOk(answer) ==
  /\ NoAlert
  /\ tk.pc = "calling"
  /\ answer \in ProviderAnswers(tk.text)
  /\ tk' = [tk EXCEPT !.pc = "storing", !.translated = answer]
  /\ UNCHANGED <<viewVars, listVars, modalVars, settingVars, cache, lf, ob, bt, jobs>>

\* the catch block also resets the translation view
TranslateProviderFailClearsView ==
  /\ NoAlert
  /\ tk.pc = "calling"
  /\ tk' = [tk EXCEPT !.pc = "alertError"]
  /\ translatedContent' = EmptyStr
  /\ showTranslation' = FALSE
  /\ UNCHANGED <<markdownContent, fileName, filePath, isTranslating, isCached,
                 listVars, modalVars, settingVars, cache, lf, ob, bt, jobs>>

\* the provider call failed (HTTP error, malformed response, network): the
\* catch block reports error.message in an alert
TranslateProviderFail ==
  /\ NoAlert
  /\ tk.pc = "calling"
  /\ tk' = [tk EXCEPT !.pc = "alertError"]
  /\ UNCHANGED <<viewVars, listVars, modalVars, settingVars, cache, lf, ob, bt, jobs>>

\* the function returns after its alert without resetting the flag
TranslateAlertDismissedFlagKept ==
  /\ tk.pc \in {"alertNoKey", "alertError"}
  /\ tk' = IdleTranslate
  /\ UNCHANGED <<viewVars, listVars, modalVars, settingVars, cache, lf, ob, bt, jobs>>

\* the alert of translateToKorean is dismissed: setIsTranslating(false)
TranslateAlertDismissed ==
  /\ tk.pc \in {"alertNoKey", "alertError"}
  /\ isTranslating' = FALSE
  /\ tk' = IdleTranslate
  /\ UNCHANGED <<markdownContent, fileName, filePath, translatedContent,
                 showTranslation, isCached, listVars, modalVars, settingVars,
                 cache, lf, ob, bt, jobs>>

\* the entry is written under the digest of the translation, not of the source
TranslateStoredWrongDigest(stored) ==
  /\ NoAlert
  /\ tk.pc = "storing"
  /\ cache' = IF stored
                THEN saveCachedTranslation(cache, tk.id, generateHash(tk.translated),
                                           tk.text, tk.translated)
                ELSE cache
  /\ translatedContent' = tk.translated
  /\ showTranslation' = TRUE
  /\ isCached' = FALSE
  /\ isTranslating' = FALSE
  /\ tk' = IdleTranslate
  /\ UNCHANGED <<markdownContent, fileName, filePath, listVars, modalVars,
                 settingVars, lf, ob, bt, jobs>>

\* a failed store throws into the catch block: the translation is not shown
TranslateStoredAbortOnFail(stored) ==
  /\ NoAlert
  /\ tk.pc = "storing"
  /\ cache' = IF stored
                THEN saveCachedTranslation(cache, tk.id, generateHash(tk.text),
                                           tk.text, tk.translated)
                ELSE cache
  /\ translatedContent' = IF stored THEN tk.translated ELSE translatedContent
  /\ showTranslation' = IF stored THEN TRUE ELSE showTranslation
  /\ isCached' = IF stored THEN FALSE ELSE isCached
  /\ isTranslating' = IF stored THEN FALSE ELSE isTranslating
  /\ tk' = IF stored THEN IdleTranslate ELSE [tk EXCEPT !.pc = "alertError"]
  /\ UNCHANGED <<markdownContent, fileName, filePath, listVars, modalVars,
                 settingVars, lf, ob, bt, jobs>>

\* saveCachedTranslation returned (stored = FALSE: the storage layer failed
\* and the write was dropped); the translation is shown
TranslateStored(stored) ==
  /\ NoAlert
  /\ tk.pc = "storing"
  /\ cache' = IF stored
                THEN saveCachedTranslation(cache, tk.id, generateHash(tk.text),
                                           tk.text, tk.translated)
                ELSE cache
  /\ translatedContent' = tk.translated
  /\ showTranslation' = TRUE
  /\ isCached' = FALSE
  /\ isTranslating' = FALSE
  /\ tk' = IdleTranslate
  /\ UNCHANGED <<markdownContent, fileName, filePath, listVars, modalVars,
                 settingVars, lf, ob, bt, jobs>>

\* the toggle next to the translate button: setShowTranslation(!showTranslation)
ToggleShowTranslation ==
  /\ PageInteractive
  /\ translatedContent # EmptyStr
  /\ showTranslation' = ~showTranslation
  /\ UNCHANGED <<markdownContent, fileName, filePath, translatedContent,
                 isTranslating, isCached, listVars, modalVars, settingVars,
                 cache, procVars>>

\* ------------------------------------------------ openBatchTranslateModal
\* the button is rendered when fileTree && fileList.length > 0; the function
\* runs up to the awaits for its first file
openBatchTranslateModal ==
  /\ PageInteractive
  /\ SidebarShown
  /\ fileTree # <<>>
  /\ fileList # <<>>
  /\ ob.pc = "idle"
  /\ LET mdFiles == SelectSeq(fileList, isMarkdownFile)
     IN /\ mdFiles # <<>>
        /\ ob' = [pc |-> "scan", files |-> mdFiles, i |-> 1,
                  cached |-> {}, selected |-> {}]
  /\ UNCHANGED <<viewVars, listVars, modalVars, settingVars, cache, lf, tk, bt, jobs>>

\* one turn of the loop: the text of file i is read and the cache asked;
\* after the last file the modal opens with the partition
OpenScanFile ==
  /\ NoAlert
  /\ ob.pc = "scan"
  /\ LET file == ob.files[ob.i]
         path == PathOf(file)
         hit == Truthy(getCachedTranslation(cache, path, generateHash(file.text)))
         cached == IF hit THEN ob.cached \cup {path} ELSE ob.cached
         selected == IF hit THEN ob.selected ELSE ob.selected \cup {path}
     IN IF ob.i < Len(ob.files)
          THEN /\ ob' = [ob EXCEPT !.i = ob.i + 1, !.cached = cached,
                                   !.selected = selected]
               /\ UNCHANGED modalVars
          ELSE /\ ob' = IdleOpen
               /\ cachedFiles' = cached
               /\ selectedFiles' = selected
               /\ translatingFiles' = {}
               /\ translatedFiles' = {}
               /\ showBatchModal' = TRUE
               /\ UNCHANGED <<batchProgress, isBatchTranslating>>
  /\ UNCHANGED <<viewVars, listVars, settingVars, cache, lf, tk, bt, jobs>>

\* file.text() rejected inside the loop: the function ends, no modal
OpenScanFail ==
  /\ NoAlert
  /\ ob.pc = "scan"
  /\ ob' = IdleOpen
  /\ UNCHANGED <<viewVars, listVars, modalVars, settingVars, cache, lf, tk, bt, jobs>>

\* the batch button is clicked again while the first call is still scanning
\* (the button is not disabled and the modal is not open yet)
openBatchTranslateModalAgain ==
  /\ PageInteractive
  /\ SidebarShown
  /\ fileTree # <<>>
  /\ fileList # <<>>
  /\ ob.pc = "scan"
  /\ ob2.pc = "idle"
  /\ LET mdFiles == SelectSeq(fileList, isMarkdownFile)
     IN /\ mdFiles # <<>>
        /\ ob2' = [pc |-> "scan", files |-> mdFiles, i |-> 1,
                   cached |-> {}, selected |-> {}]
  /\ UNCHANGED <<vars, checks, refreshedAtRest>>

\* one turn of the loop of the second call; after the last file it sets the
\* partition and opens the modal like the first
SecondScanFile ==
  /\ NoAlert
  /\ ob2.pc = "scan"
  /\ LET file == ob2.files[ob2.i]
         path == PathOf(file)
         hit == Truthy(getCachedTranslation(cache, path, generateHash(file.text)))
         cached == IF hit THEN ob2.cached \cup {path} ELSE ob2.cached
         selected == IF hit THEN ob2.selected ELSE ob2.selected \cup {path}
     IN IF ob2.i < Len(ob2.files)
          THEN /\ ob2' = [ob2 EXCEPT !.i = ob2.i + 1, !.cached = cached,
                                     !.selected = selected]
               /\ UNCHANGED modalVars
          ELSE /\ ob2' = IdleOpen
               /\ cachedFiles' = cached
               /\ selectedFiles' = selected
               /\ translatingFiles' = {}
               /\ translatedFiles' = {}
               /\ showBatchModal' = TRUE
               /\ UNCHANGED <<batchProgress, isBatchTranslating>>
  /\ UNCHANGED <<viewVars, listVars, settingVars, cache, procVars, gestures,
                 checks, refreshedAtRest>>

\* ------------------------------------------------------- modal controls
\* the paths whose checkbox the modal renders
ModalPaths ==
  IF fileTree # <<>>
    THEN { PathOf(f) : f \in TreeMdFiles(fileTree[1]) }
    ELSE { PathOf(f) : f \in { g \in SeqRange(fileList) : isMarkdownFile(g) } }

\* checkbox: disabled={isCached || isBatchTranslating}
toggleFileSelection(path) ==
  /\ NoAlert
  /\ showBatchModal
  /\ ~isBatchTranslating
  /\ path \in ModalPaths
  /\ path \notin cachedFiles
  /\ selectedFiles' = IF path \in selectedFiles
                        THEN selectedFiles \ {path}
                        ELSE selectedFiles \cup {path}
  /\ UNCHANGED <<viewVars, listVars, showBatchModal, cachedFiles, batchProgress,
                 isBatchTranslating, translatingFiles, translatedFiles,
                 settingVars, cache, procVars>>

selectAllFiles ==
  /\ NoAlert
  /\ showBatchModal
  /\ ~isBatchTranslating
  /\ selectedFiles' = { PathOf(f) : f \in SeqRange(fileList) } \ cachedFiles
  /\ UNCHANGED <<viewVars, listVars, showBatchModal, cachedFiles, batchProgress,
                 isBatchTranslating, translatingFiles, translatedFiles,
                 settingVars, cache, procVars>>

deselectAllFiles ==
  /\ NoAlert
  /\ showBatchModal
  /\ ~isBatchTranslating
  /\ selectedFiles' = {}
  /\ UNCHANGED <<viewVars, listVars, showBatchModal, cachedFiles, batchProgress,
                 isBatchTranslating, translatingFiles, translatedFiles,
                 settingVars, cache, procVars>>

\* the close button, the cancel button and a click on the overlay
CloseBatchModal ==
  /\ NoAlert
  /\ showBatchModal
  /\ ~isBatchTranslating
  /\ showBatchModal' = FALSE
  /\ UNCHANGED <<viewVars, listVars, selectedFiles, cachedFiles, batchProgress,
                 isBatchTranslating, translatingFiles, translatedFiles,
                 settingVars, cache, procVars>>

\* ------------------------------------------------ executeBatchTranslation
\* the jobs whose promise is in `executing`: started and not yet settled
Executing(js) ==
  { k \in 1..Len(js) : js[k].st \in {"reading", "calling", "storing"} }

Finished(js) == { k \in 1..Len(js) : js[k].st \in {"done", "failed"} }

Pending(js) == { k \in 1..Len(js) : js[k].st = "pending" }

\* for (const file of filesToTranslate): translateFile(file) runs up to its
\* first await (the file is marked translating), its promise joins
\* `executing`, and the loop waits as soon as executing.size >= concurrencyLimit
RECURSIVE RunLoopOverAdmit(_, _, _)
RunLoopOverAdmit(js, n, translating) ==
  IF n > Len(js)
    THEN [jobs |-> js, next |-> n, translating |-> translating]
    ELSE LET started == [js EXCEPT ![n].st = "reading"]
             marked == translating \cup {PathOf(js[n].file)}
         IN IF Cardinality(Executing(started)) > concurrencyLimit
              THEN [jobs |-> started, next |-> n + 1, translating |-> marked]
              ELSE RunLoopOverAdmit(started, n + 1, marked)

RECURSIVE RunLoop(_, _, _)
RunLoop(js, n, translating) ==
  IF n > Len(js)
    THEN [jobs |-> js, next |-> n, translating |-> translating]
    ELSE LET started == [js EXCEPT ![n].st = "reading"]
             marked == translating \cup {PathOf(js[n].file)}
         IN IF Cardinality(Executing(started)) >= concurrencyLimit
              THEN [jobs |-> started, next |-> n + 1, translating |-> marked]
              ELSE RunLoop(started, n + 1, marked)

\* fixed-size batches: the next files start only when the whole batch settled
ResumeFixedBatches(js, n, translating) ==
  IF Executing(js) = {}
    THEN RunLoop(js, n, translating)
    ELSE [jobs |-> js, next |-> n, translating |-> translating]

\* the loop is never woken: the files behind the first window never start
ResumeNeverWoken(js, n, translating) ==
  [jobs |-> js, next |-> n, translating |-> translating]

\* a settled promise leaves `executing` and Promise.race wakes the loop
Resume(js, n, translating) == RunLoop(js, n, translating)

\* the loop is over, the remaining promises are not awaited
DrainedLoopOnly(js, n) == n > Len(js)

\* Promise.all(executing) after the loop: nothing left to start or to settle
Drained(js, n) == n > Len(js) /\ Executing(js) = {}

NewJob(file) == [file |-> file, st |-> "pending", err |-> "", translated |-> EmptyStr]

\* neither the button nor the function tests for an empty selection
executeBatchTranslationNoEmptyCheck ==
  /\ NoAlert
  /\ showBatchModal
  /\ ~isBatchTranslating
  /\ BatchApiKey(apiKeys, env, llmProvider) # EmptyStr
  /\ LET filesToTranslate == SelectSeq(fileList, LAMBDA f : PathOf(f) \in selectedFiles)
         fresh == [k \in 1..Len(filesToTranslate) |-> NewJob(filesToTranslate[k])]
         r == RunLoop(fresh, 1, translatingFiles)
     IN /\ jobs' = r.jobs
        /\ translatingFiles' = r.translating
        /\ bt' = [pc |-> IF Drained(r.jobs, r.next) THEN "alert" ELSE "running",
                  next |-> r.next, completed |-> 0,
                  total |-> Cardinality(selectedFiles),
                  provider |-> llmProvider,
                  apiKey |-> BatchApiKey(apiKeys, env, llmProvider),
                  model |-> llmModel]
  /\ isBatchTranslating' = TRUE
  /\ batchProgress' = [current |-> 0, total |-> Cardinality(selectedFiles)]
  /\ UNCHANGED <<viewVars, listVars, showBatchModal, selectedFiles, cachedFiles,
                 translatedFiles, settingVars, cache, lf, tk, ob>>

\* the start button: disabled={isBatchTranslating || selectedFiles.size === 0}
executeBatchTranslation ==
  /\ NoAlert
  /\ showBatchModal
  /\ ~isBatchTranslating
  /\ selectedFiles # {}
  /\ BatchApiKey(apiKeys, env, llmProvider) # EmptyStr
  /\ LET filesToTranslate == SelectSeq(fileList, LAMBDA f : PathOf(f) \in selectedFiles)
         fresh == [k \in 1..Len(filesToTranslate) |-> NewJob(filesToTranslate[k])]
         r == RunLoop(fresh, 1, translatingFiles)
     IN /\ jobs' = r.jobs
        /\ translatingFiles' = r.translating
        /\ bt' = [pc |-> IF Drained(r.jobs, r.next) THEN "alert" ELSE "running",
                  next |-> r.next, completed |-> 0,
                  total |-> Cardinality(selectedFiles),
                  provider |-> llmProvider,
                  apiKey |-> BatchApiKey(apiKeys, env, llmProvider),
                  model |-> llmModel]
  /\ isBatchTranslating' = TRUE
  /\ batchProgress' = [current |-> 0, total |-> Cardinality(selectedFiles)]
  /\ UNCHANGED <<viewVars, listVars, showBatchModal, selectedFiles, cachedFiles,
                 translatedFiles, settingVars, cache, lf, tk, ob>>

\* the flags are raised before the credential is looked for
ExecuteWithoutCredentialFlagsFirst ==
  /\ NoAlert
  /\ showBatchModal
  /\ ~isBatchTranslating
  /\ selectedFiles # {}
  /\ BatchApiKey(apiKeys, env, llmProvider) = EmptyStr
  /\ isBatchTranslating' = TRUE
  /\ batchProgress' = [current |-> 0, total |-> Cardinality(selectedFiles)]
  /\ bt' = [IdleBatch EXCEPT !.pc = "alertNoKey"]
  /\ UNCHANGED <<viewVars, listVars, showBatchModal, selectedFiles, cachedFiles,
                 translatingFiles, translatedFiles, settingVars, cache, lf, tk, ob, jobs>>

\* no credential for the selected provider: an alert, and nothing starts
ExecuteWithoutCredential ==
  /\ NoAlert
  /\ showBatchModal
  /\ ~isBatchTranslating
  /\ selectedFiles # {}
  /\ BatchApiKey(apiKeys, env, llmProvider) = EmptyStr
  /\ bt' = [IdleBatch EXCEPT !.pc = "alertNoKey"]
  /\ UNCHANGED <<viewVars, listVars, modalVars, settingVars, cache, lf, tk, ob, jobs>>

\* the alert is dismissed and executeBatchTranslation returns
ExecuteAlertDismissed ==
  /\ bt.pc = "alertNoKey"
  /\ bt' = IdleBatch
  /\ UNCHANGED <<viewVars, listVars, modalVars, settingVars, cache, lf, tk, ob, jobs>>

\* translateFile, file.text() resolved: the provider is called (an unknown
\* provider throws instead)
JobRead(k) ==
  /\ NoAlert
  /\ bt.pc = "running"
  /\ k \in 1..Len(jobs)
  /\ jobs[k].st = "reading"
  /\ BatchRequest(bt.provider, bt.apiKey, bt.model, jobs[k].file.text) # NoRequest
  /\ jobs' = [jobs EXCEPT ![k].st = "calling"]
  /\ UNCHANGED <<viewVars, listVars, modalVars, settingVars, cache, lf, tk, ob, bt>>

\* translateFile without its catch: a failure rejects the pool and ends the batch
SettleJobAbortOnFail(k, outcome, error, translated, cached) ==
  LET settled == [jobs EXCEPT ![k].st = outcome, ![k].err = error]
      r == Resume(settled, bt.next, translatingFiles \ {PathOf(jobs[k].file)})
  IN /\ jobs' = IF outcome = "failed" THEN settled ELSE r.jobs
     /\ translatingFiles' = IF outcome = "failed" THEN translatingFiles ELSE r.translating
     /\ translatedFiles' = translated
     /\ cachedFiles' = cached
     /\ batchProgress' = [current |-> bt.completed + 1, total |-> bt.total]
     /\ bt' = [bt EXCEPT !.completed = bt.completed + 1,
                         !.next = IF outcome = "failed" THEN bt.next ELSE r.next,
                         !.pc = IF outcome = "failed" \/ Drained(r.jobs, r.next)
                                  THEN "alert" ELSE "running"]
     /\ UNCHANGED <<viewVars, listVars, showBatchModal, selectedFiles,
                    isBatchTranslating, settingVars, lf, tk, ob>>

\* completed++ at the end of the try block instead of in finally
SettleJobCountOnSuccess(k, outcome, error, translated, cached) ==
  LET settled == [jobs EXCEPT ![k].st = outcome, ![k].err = error]
      r == Resume(settled, bt.next, translatingFiles \ {PathOf(jobs[k].file)})
      count == IF outcome = "done" THEN bt.completed + 1 ELSE bt.completed
  IN /\ jobs' = r.jobs
     /\ translatingFiles' = r.translating
     /\ translatedFiles' = translated
     /\ cachedFiles' = cached
     /\ batchProgress' = [current |-> count, total |-> bt.total]
     /\ bt' = [bt EXCEPT !.completed = count,
                         !.next = r.next,
                         !.pc = IF Drained(r.jobs, r.next) THEN "alert" ELSE "running"]
     /\ UNCHANGED <<viewVars, listVars, showBatchModal, selectedFiles,
                    isBatchTranslating, settingVars, lf, tk, ob>>

\* the catch and finally blocks of translateFile, then the pool: the job
\* leaves translatingFiles, completed++ is reported, the loop is resumed and
\* the batch reaches its completion alert once everything has settled
SettleJob(k, outcome, error, translated, cached) ==
  LET settled == [jobs EXCEPT ![k].st = outcome, ![k].err = error]
      r == Resume(settled, bt.next, translatingFiles \ {PathOf(jobs[k].file)})
  IN /\ jobs' = r.jobs
     /\ translatingFiles' = r.translating
     /\ translatedFiles' = translated
     /\ cachedFiles' = cached
     /\ batchProgress' = [current |-> bt.completed + 1, total |-> bt.total]
     /\ bt' = [bt EXCEPT !.completed = bt.completed + 1,
                         !.next = r.next,
                         !.pc = IF Drained(r.jobs, r.next) THEN "alert" ELSE "running"]
     /\ UNCHANGED <<viewVars, listVars, showBatchModal, selectedFiles,
                    isBatchTranslating, settingVars, lf, tk, ob>>

\* file.text() rejected, or the provider is unknown: caught, the job failed
JobReadFail(k) ==
  /\ NoAlert
  /\ bt.pc = "running"
  /\ k \in 1..Len(jobs)
  /\ jobs[k].st = "reading"
  /\ cache' = cache
  /\ SettleJob(k, "failed",
               IF BatchRequest(bt.provider, bt.apiKey, bt.model, jobs[k].file.text) # NoRequest
                 THEN "read" ELSE "provider",
               translatedFiles, cachedFiles)

\* the provider answered: saveCachedTranslation is awaited
JobProviderOk(k, answer) ==
  /\ NoAlert
  /\ bt.pc = "running"
  /\ k \in 1..Len(jobs)
  /\ jobs[k].st = "calling"
  /\ answer \in ProviderAnswers(jobs[k].file.text)
  /\ jobs' = [jobs EXCEPT ![k].st = "storing", ![k].translated = answer]
  /\ UNCHANGED <<viewVars, listVars, modalVars, settingVars, cache, lf, tk, ob, bt>>

\* the provider call threw: caught, the job failed
JobProviderFail(k) ==
  /\ NoAlert
  /\ bt.pc = "running"
  /\ k \in 1..Len(jobs)
  /\ jobs[k].st = "calling"
  /\ cache' = cache
  /\ SettleJob(k, "failed", "provider", translatedFiles, cachedFiles)

\* saveCachedTranslation returned (stored = FALSE: the write was dropped by
\* the storage layer): the file is marked translated and cached
JobStored(k, stored) ==
  /\ NoAlert
  /\ bt.pc = "running"
  /\ k \in 1..Len(jobs)
  /\ jobs[k].st = "storing"
  /\ LET file == jobs[k].file
     IN /\ cache' = IF stored
                      THEN saveCachedTranslation(cache, PathOf(file),
                                                 generateHash(file.text), file.text,
                                                 jobs[k].translated)
                      ELSE cache
        /\ SettleJob(k, "done", IF stored THEN "" ELSE "store",
                     translatedFiles \cup {PathOf(file)},
                     cachedFiles \cup {PathOf(file)})

\* the completion alert is dismissed: the modal closes, the flags are reset
BatchComplete ==
  /\ bt.pc = "alert"
  /\ showBatchModal' = FALSE
  /\ isBatchTranslating' = FALSE
  /\ batchProgress' = [current |-> 0, total |-> 0]
  /\ bt' = IdleBatch
  /\ jobs' = <<>>
  /\ UNCHANGED <<viewVars, listVars, selectedFiles, cachedFiles, translatingFiles,
                 translatedFiles, settingVars, cache, lf, tk, ob>>

\* --------------------------------------------------- cache-status check
\* the effect on [fileList, allFiles]: a state setter called with a new array
\* runs it, and it starts checkCacheForAllFiles when either list is non-empty
StartCheck(running, files, all) ==
  IF files # <<>> \/ all # <<>>
    THEN Append(running, [files |-> IF all # <<>> THEN all ELSE files,
                          i |-> 1, cached |-> {}])
    ELSE running

\* no handler and no check is in flight
AtRest ==
  /\ lf = <<>>
  /\ tk.pc = "idle"
  /\ ob.pc = "idle"
  /\ ob2.pc = "idle"
  /\ bt.pc = "idle"
  /\ checks = <<>>

\* one turn of the loop of checkCacheForAllFiles: a file whose name does not
\* end in .md is skipped, else its text is read and the cache asked; after
\* the last file setCachedFiles(cached)
CheckFile(j) ==
  /\ NoAlert
  /\ j \in 1..Len(checks)
  /\ LET c == checks[j]
         file == c.files[c.i]
         hit == /\ EndsWithMd(file)
                /\ Truthy(getCachedTranslation(cache, PathOf(file),
                                               generateHash(file.text)))
         cached == IF hit THEN c.cached \cup {PathOf(file)} ELSE c.cached
     IN IF c.i < Len(c.files)
          THEN /\ checks' = [checks EXCEPT ![j].i = c.i + 1, ![j].cached = cached]
               /\ UNCHANGED modalVars
          ELSE /\ checks' = RemoveAt(checks, j)
               /\ cachedFiles' = cached
               /\ UNCHANGED <<showBatchModal, selectedFiles, batchProgress,
                              isBatchTranslating, translatingFiles, translatedFiles>>
  /\ UNCHANGED <<viewVars, listVars, settingVars, cache, procVars, gestures,
                 ob2, refreshedAtRest>>

\* a gesture whose handler sets fileList or allFiles: the effect runs
GestureWithEffect(max, A) ==
  /\ gestures < max
  /\ gestures' = gestures + 1
  /\ A
  /\ checks' = StartCheck(checks, fileList', allFiles')
  /\ refreshedAtRest' = FALSE
  /\ UNCHANGED ob2

\* a gesture whose handler sets neither list
GestureNoEffect(max, A) ==
  /\ gestures < max
  /\ gestures' = gestures + 1
  /\ A
  /\ refreshedAtRest' = FALSE
  /\ UNCHANGED <<checks, ob2>>

\* the refresh button of the sidebar (rendered with a non-empty list).
\* Folder mode: the tree and the list are rebuilt from allFiles, which runs
\* the effect.  File mode: setFileList gets the array it already holds, the
\* state does not change and the effect does not run.  Then cachedFiles is
\* cleared.
refreshFileList ==
  /\ PageInteractive
  /\ SidebarShown
  /\ IF allFiles # <<>>
       THEN /\ fileTree' = <<buildFileTree(allFiles)>>
            /\ fileList' = SelectSeq(allFiles, isMarkdownFile)
            /\ checks' = StartCheck(checks, fileList', allFiles)
       ELSE /\ UNCHANGED <<fileTree, fileList, checks>>
  /\ cachedFiles' = {}
  /\ refreshedAtRest' = AtRest
  /\ UNCHANGED <<allFiles, viewVars, showBatchModal, selectedFiles, batchProgress,
                 isBatchTranslating, translatingFiles, translatedFiles,
                 settingVars, cache, procVars, ob2>>

\* ---------------------------------------------------------- specification
\* every answer a provider can give in the model
Answers == {EmptyStr} \cup { 1000 + f.text : f \in AllFileObjects }

\* a step taken by the user, in a session of at most max gestures
Gesture(max, A) ==
  gestures < max /\ gestures' = gestures + 1 /\ A /\ UNCHANGED extraVars

\* a step taken by the event loop: a promise settles
Settle(A) == A /\ UNCHANGED <<gestures, extraVars>>

FileGestures(max, versions, selects, drops) ==
  \/ \E v \in versions : Gesture(max, handleFolderSelect(FolderInput(v)))
  \/ \E files \in selects : Gesture(max, handleFileSelect(files))
  \/ \E files \in drops : Gesture(max, handleDrop(files))
  \/ \E f \in AllFileObjects : Gesture(max, ClickFile(f))

LoadSteps ==
  \/ \E i \in 1..MaxLoads : Settle(LoadRead(i))
  \/ \E i \in 1..MaxLoads : Settle(LoadNotReadable(i))
  \/ \E i \in 1..MaxLoads : Settle(LoadError(i))
  \/ \E i \in 1..MaxLoads : Settle(LoadLookup(i))

ModalSteps(max) ==
  \/ Gesture(max, openBatchTranslateModal)
  \/ Settle(OpenScanFile)
  \/ Settle(OpenScanFail)
  \/ \E p \in AllPaths : Gesture(max, toggleFileSelection(p))
  \/ Gesture(max, selectAllFiles)
  \/ Gesture(max, deselectAllFiles)
  \/ Gesture(max, CloseBatchModal)
  \/ Gesture(max, ExecuteWithoutCredential)
  \/ Settle(ExecuteAlertDismissed)

JobSteps(max, storage) ==
  \/ Gesture(max, executeBatchTranslation)
  \/ \E k \in 1..(NumDocs + 1) : Settle(JobRead(k))
  \/ \E k \in 1..(NumDocs + 1) : Settle(JobReadFail(k))
  \/ \E k \in 1..(NumDocs + 1), a \in Answers : Settle(JobProviderOk(k, a))
  \/ \E k \in 1..(NumDocs + 1) : Settle(JobProviderFail(k))
  \/ \E k \in 1..(NumDocs + 1), stored \in storage : Settle(JobStored(k, stored))
  \/ Settle(BatchComplete)

SingleSteps(max, storage) ==
  \/ Gesture(max, translateToKorean)
  \/ Settle(TranslateCacheHit)
  \/ Settle(TranslateCacheMiss)
  \/ \E a \in Answers : Settle(TranslateProviderOk(a))
  \/ Settle(TranslateProviderFail)
  \/ Settle(TranslateAlertDismissed)
  \/ \E stored \in storage : Settle(TranslateStored(stored))
  \/ Gesture(max, ToggleShowTranslation)

Next ==
  \/ FileGestures(MaxGestures, 1..NumVersions, FileSelectInputs, DropInputs)
  \/ LoadSteps
  \/ SingleSteps(MaxGestures, BOOLEAN)
  \/ ModalSteps(MaxGestures)
  \/ JobSteps(MaxGestures, BOOLEAN)

Spec == Init /\ [][Next]_allVars

\* the program started with any of the settings, in sessions of
\* RequestGestures gestures over one folder, one picked file, one dropped file
InitRequest == InitApp(AllSettings)

NextRequest ==
  \/ FileGestures(RequestGestures, {1}, FileSelectInputs, {<<LooseFile(1, "md", 11)>>})
  \/ LoadSteps
  \/ SingleSteps(RequestGestures, {TRUE})
  \/ ModalSteps(RequestGestures)
  \/ JobSteps(RequestGestures, {TRUE})

SpecRequest == InitRequest /\ [][NextRequest]_allVars

\* the program with its cache-status check and the refresh button, for a
\* user who picks the folder or a file, translates, runs batches and
\* refreshes, and an environment in which no read and no request fails
NextCheck ==
  \/ GestureWithEffect(CheckGestures, handleFolderSelect(FolderInput(1)))
  \/ \E files \in FileSelectInputs : GestureWithEffect(CheckGestures, handleFileSelect(files))
  \/ gestures < CheckGestures /\ gestures' = gestures + 1 /\ refreshFileList
  \/ \E j \in 1..CheckGestures : CheckFile(j)
  \/ \E i \in 1..MaxLoads : Settle(LoadRead(i))
  \/ \E i \in 1..MaxLoads : Settle(LoadLookup(i))
  \/ GestureNoEffect(CheckGestures, translateToKorean)
  \/ Settle(TranslateCacheHit)
  \/ Settle(TranslateCacheMiss)
  \/ \E a \in Answers : Settle(TranslateProviderOk(a))
  \/ Settle(TranslateStored(TRUE))
  \/ GestureNoEffect(CheckGestures, openBatchTranslateModal)
  \/ Settle(OpenScanFile)
  \/ GestureNoEffect(CheckGestures, executeBatchTranslation)
  \/ \E k \in 1..NumDocs : Settle(JobRead(k))
  \/ \E k \in 1..NumDocs, a \in Answers : Settle(JobProviderOk(k, a))
  \/ \E k \in 1..NumDocs : Settle(JobStored(k, TRUE))
  \/ Settle(BatchComplete)

SpecCheck == Init /\ [][NextCheck]_allVars

\* the program for a user who picks the folder, drags four files onto the
\* page and runs a batch, in an environment in which nothing fails
NextDrop ==
  \/ Gesture(DropGestures, handleFolderSelect(FolderInput(1)))
  \/ Gesture(DropGestures, handleDrop(FourFileDrop))
  \/ \E i \in 1..MaxLoads : Settle(LoadRead(i))
  \/ \E i \in 1..MaxLoads : Settle(LoadLookup(i))
  \/ Gesture(DropGestures, openBatchTranslateModal)
  \/ Settle(OpenScanFile)
  \/ Gesture(DropGestures, executeBatchTranslation)
  \/ \E k \in 1..NumDocs : Settle(JobRead(k))
  \/ \E k \in 1..NumDocs, a \in Answers : Settle(JobProviderOk(k, a))
  \/ \E k \in 1..NumDocs : Settle(JobStored(k, TRUE))
  \/ Settle(BatchComplete)

SpecDrop == Init /\ [][NextDrop]_allVars

\* the program for a user who picks the folder, clicks the batch button,
\* possibly twice, and runs a batch, in an environment in which nothing fails
NextScans ==
  \/ Gesture(ScanGestures, handleFolderSelect(FolderInput(1)))
  \/ \E i \in 1..MaxLoads : Settle(LoadRead(i))
  \/ \E i \in 1..MaxLoads : Settle(LoadLookup(i))
  \/ Gesture(ScanGestures, openBatchTranslateModal)
  \/ gestures < ScanGestures /\ gestures' = gestures + 1 /\ openBatchTranslateModalAgain
  \/ Settle(OpenScanFile)
  \/ SecondScanFile
  \/ Gesture(ScanGestures, executeBatchTranslation)
  \/ \E k \in 1..NumDocs : Settle(JobRead(k))
  \/ \E k \in 1..NumDocs, a \in Answers : Settle(JobProviderOk(k, a))
  \/ \E k \in 1..NumDocs : Settle(JobStored(k, TRUE))
  \/ Settle(BatchComplete)

SpecScans == Init /\ [][NextScans]_allVars

\* the same program in sessions of LiveGestures gestures
NextLive ==
  \/ FileGestures(LiveGestures, 1..NumVersions, FileSelectInputs, DropInputs)
  \/ LoadSteps
  \/ SingleSteps(LiveGestures, BOOLEAN)
  \/ ModalSteps(LiveGestures)
  \/ JobSteps(LiveGestures, BOOLEAN)

\* every call a job awaits eventually returns or fails: file.text(), the
\* provider request, saveCachedTranslation; an alert that blocks the event
\* loop is eventually dismissed
EveryCallReturns ==
  /\ \A k \in 1..(NumDocs + 1) :
       /\ WF_allVars(Settle(JobRead(k)) \/ Settle(JobReadFail(k)))
       /\ WF_allVars((\E a \in Answers : Settle(JobProviderOk(k, a)))
                       \/ Settle(JobProviderFail(k)))
       /\ WF_allVars(\E stored \in BOOLEAN : Settle(JobStored(k, stored)))
  /\ WF_allVars(Settle(TranslateAlertDismissed))

SpecLive == Init /\ [][NextLive]_allVars /\ EveryCallReturns

\* ------------------------------------------------------------------ claims
\* the entry a successful job writes
JobEntry(job) ==
  CacheEntry(PathOf(job.file), generateHash(job.file.text), job.file.text,
             job.translated)

JobPath(k) == PathOf(jobs[k].file)

\* job k settles in this step
Settles(k) ==
  /\ k \in 1..Len(jobs)
  /\ k \in 1..Len(jobs')
  /\ jobs[k].st \in {"reading", "calling", "storing"}
  /\ jobs'[k].st \in {"done", "failed"}

\* C1: during a batch at most concurrencyLimit documents are marked
\* translating and not yet finished, in every reachable state
C1_ConcurrencyBound ==
  /\ Cardinality(Executing(jobs)) <= concurrencyLimit
  /\ Cardinality(translatingFiles) <= concurrencyLimit

\* more documents than the limit, the window full, some already finished
C1_Witness ==
  /\ bt.pc = "running"
  /\ Len(jobs) > concurrencyLimit
  /\ Cardinality(Executing(jobs)) = concurrencyLimit
  /\ Finished(jobs) # {}

\* C2 (as claimed): the provider is never called by a batch job for a
\* document whose current fingerprint has an entry in the cache
C2_NoProviderCallOnCacheHit ==
  [][\A k \in 1..Len(jobs) :
       (k \in 1..Len(jobs') /\ jobs[k].st = "reading" /\ jobs'[k].st = "calling")
         => getCachedTranslation(cache, JobPath(k),
                                 generateHash(jobs[k].file.text)) = MISS]_allVars

C4_CompletionAfterAllJobs ==
  bt.pc = "alert" =>
    /\ Executing(jobs) = {}
    /\ Pending(jobs) = {}
    /\ translatingFiles = {}

\* completion of a batch larger than the window, with both outcomes
C4_Witness ==
  /\ bt.pc = "alert"
  /\ Len(jobs) > concurrencyLimit
  /\ \E k \in 1..Len(jobs) : jobs[k].st = "done"
  /\ \E k \in 1..Len(jobs) : jobs[k].st = "failed"

\* C5 (as claimed): when the batch resolves, completed equals the total
\* announced at its start
C5_CompletedEqualsTotal ==
  bt.pc = "alert" => bt.completed = bt.total

\* C6: during a batch completed never decreases and grows by exactly one
\* in the step in which a job finishes, whatever the outcome of the job
C6_ProgressAccounting ==
  /\ [](bt.pc \in {"running", "alert"} =>
          /\ bt.completed = Cardinality(Finished(jobs))
          /\ batchProgress.current = bt.completed)
  /\ [][bt.pc = "running" =>
          /\ bt'.completed >= bt.completed
          /\ Cardinality(Finished(jobs') \ Finished(jobs)) <= 1
          /\ bt'.completed =
               bt.completed + Cardinality(Finished(jobs') \ Finished(jobs))]_allVars

\* a batch in which every kind of outcome was counted once
C6_Witness ==
  /\ bt.pc = "alert"
  /\ bt.completed = 4
  /\ \A e \in {"", "read", "provider", "store"} :
       \E k \in 1..Len(jobs) : jobs[k].err = e

\* C7 (as claimed): the progress pair reported to the UI always satisfies
\* completed <= total
C7_CompletedAtMostTotal ==
  batchProgress.current <= batchProgress.total

C9_SingleUsesCache ==
  [][tk.pc = "lookup" /\ tk' # tk =>
       LET stored == getCachedTranslation(cache, tk.id, generateHash(tk.text))
       IN /\ stored # MISS =>
               /\ tk'.pc = "idle"
               /\ translatedContent' = stored
               /\ isCached'
               /\ showTranslation'
          /\ (stored = MISS /\ tk.apiKey # EmptyStr) => tk'.pc = "calling"]_allVars

\* C10 (as claimed): a translation stored by a batch job is found and shown
\* as a cache hit when that file is loaded later with unchanged content
C10_BatchStoreHitsOnLoad ==
  [][\A i \in 1..Len(lf) :
       (lf[i].pc = "lookup" /\ Len(lf') < Len(lf)
          /\ PathOf(lf[i].file) \in translatedFiles
          /\ getCachedTranslation(cache, PathOf(lf[i].file),
                                  generateHash(lf[i].file.text)) # MISS)
         => /\ translatedContent' =
                 getCachedTranslation(cache, PathOf(lf[i].file),
                                      generateHash(lf[i].file.text))
            /\ showTranslation'
            /\ isCached']_allVars

\* the fingerprints of the texts of the model
Digests == { generateHash(f.text) : f \in AllFileObjects }

\* job k goes from awaiting saveCachedTranslation to settled in this step
JobStores(k) ==
  /\ k \in 1..Len(jobs)
  /\ k \in 1..Len(jobs')
  /\ jobs[k].st = "storing"
  /\ jobs'[k].st # "storing"

\* translateToKorean goes past its await of saveCachedTranslation in this step
SingleStores == tk.pc = "storing" /\ tk'.pc # "storing"

\* C11: after a store of (id, d, src, tr) by translateToKorean or by a batch
\* job, a lookup of (id, d) answers tr and a lookup of (id, d') with any
\* other fingerprint d' is a MISS; a lookup for a document without an entry
\* is a MISS
C11_CacheCorrectness ==
  /\ [](\A p \in AllPaths, d \in Digests :
          EntriesOf(cache, p) = {} => getCachedTranslation(cache, p, d) = MISS)
  /\ [][(SingleStores /\ EntriesOf(cache', tk.id) # EntriesOf(cache, tk.id)) =>
          /\ getCachedTranslation(cache', tk.id, generateHash(tk.text)) = tk.translated
          /\ \A d \in Digests \ {generateHash(tk.text)} :
               getCachedTranslation(cache', tk.id, d) = MISS]_allVars
  /\ [][\A k \in 1..Len(jobs) :
          (JobStores(k) /\ EntriesOf(cache', JobPath(k)) # EntriesOf(cache, JobPath(k))) =>
            /\ getCachedTranslation(cache', JobPath(k), generateHash(jobs[k].file.text))
                 = jobs[k].translated
            /\ \A d \in Digests \ {generateHash(jobs[k].file.text)} :
                 getCachedTranslation(cache', JobPath(k), d) = MISS]_allVars

\* the translation just stored by translateToKorean is what a lookup answers,
\* next to a document that has no entry
C11_Witness ==
  /\ tk.pc = "idle"
  /\ showTranslation
  /\ ~isCached
  /\ markdownContent # EmptyStr
  /\ translatedContent # EmptyStr
  /\ getCachedTranslation(cache, filePath, generateHash(markdownContent))
       = translatedContent
  /\ \E p \in AllPaths : EntriesOf(cache, p) = {}

\* C12: the cache never holds two entries for one documentId; an entry
\* written over an entry with another fingerprint supersedes it: the old
\* fingerprint is a MISS and the new one answers the new translation
C12_Supersession ==
  /\ [](\A p \in AllPaths : Cardinality(EntriesOf(cache, p)) <= 1)
  /\ [][\A p \in AllPaths :
          \A new \in EntriesOf(cache', p) \ EntriesOf(cache, p) :
            /\ getCachedTranslation(cache', p, new.hash) = new.translated
            /\ \A old \in EntriesOf(cache, p) :
                 old.hash # new.hash => getCachedTranslation(cache', p, old.hash) = MISS]_allVars

\* two jobs of one batch stored different texts under the same documentId
C12_Witness ==
  /\ bt.pc = "alert"
  /\ \E j, k \in 1..Len(jobs) :
       /\ j < k
       /\ JobPath(j) = JobPath(k)
       /\ jobs[j].file.text # jobs[k].file.text
       /\ jobs[j].st = "done" /\ jobs[j].err = ""
       /\ jobs[k].st = "done" /\ jobs[k].err = ""
       /\ Cardinality(EntriesOf(cache, JobPath(k))) = 1

NoProgress == [current |-> 0, total |-> 0]

\* C14: without a credential for the selected provider executeBatchTranslation
\* ends in its alert before any job starts: no job exists, no document is
\* marked translating, the cache, isBatchTranslating and the progress pair
\* keep their values, and no batch ever runs without a credential
C14_NoCredentialRejected ==
  /\ [](bt.pc = "alertNoKey" =>
          /\ jobs = <<>>
          /\ translatingFiles = {}
          /\ ~isBatchTranslating
          /\ batchProgress = NoProgress)
  /\ [][(bt.pc = "idle" /\ EffectiveApiKey(apiKeys, env, llmProvider) = EmptyStr) =>
          /\ bt'.pc \in {"idle", "alertNoKey"}
          /\ jobs' = jobs
          /\ translatingFiles' = translatingFiles
          /\ isBatchTranslating' = isBatchTranslating
          /\ batchProgress' = batchProgress
          /\ bt'.pc = "alertNoKey" => cache' = cache]_allVars
  /\ [](bt.pc \in {"running", "alert"} => bt.apiKey # EmptyStr)

\* the alert of a batch refused for want of a credential
C14_Witness ==
  /\ bt.pc = "alertNoKey"
  /\ showBatchModal
  /\ selectedFiles # {}

\* C15: with an empty selection no batch starts: in every step taken from
\* such a state no job is started, no document is marked translating, the
\* progress pair stays 0/0 and the cache is not written by a batch
C15_EmptySelection ==
  /\ [](bt.pc = "idle" => jobs = <<>> /\ batchProgress = NoProgress)
  /\ [][(selectedFiles = {} /\ bt.pc = "idle") =>
          /\ bt' = bt
          /\ jobs' = jobs
          /\ translatingFiles' = translatingFiles
          /\ isBatchTranslating' = isBatchTranslating
          /\ batchProgress' = batchProgress
          /\ cache' # cache => tk.pc = "storing"]_allVars

\* the open modal with nothing selected and a credential at hand
C15_Witness ==
  /\ showBatchModal
  /\ selectedFiles = {}
  /\ bt.pc = "idle"
  /\ ~isBatchTranslating
  /\ fileList # <<>>
  /\ EffectiveApiKey(apiKeys, env, llmProvider) # EmptyStr

\* C16: a provider error in translateToKorean ends in the alert that carries
\* its message; no step of a call that does not end in a cache hit or in a
\* stored translation writes the cache or changes translatedContent or
\* showTranslation
C16_SingleErrorSurfaced ==
  /\ [][(tk.pc = "calling" /\ tk'.pc \notin {"calling", "storing"}) =>
          tk'.pc = "alertError"]_allVars
  /\ [][(tk' # tk /\ ~(tk.pc \in {"lookup", "storing"} /\ tk'.pc = "idle")) =>
          /\ cache' = cache
          /\ translatedContent' = translatedContent
          /\ showTranslation' = showTranslation]_allVars

\* the error alert, with an earlier translation still on display
C16_Witness ==
  /\ tk.pc = "alertError"
  /\ translatedContent # EmptyStr
  /\ showTranslation
  /\ cache = {}

\* C17 (as claimed): when the batch resolves, the state shown to the user
\* tells the outcome of every submitted document: a done document is marked
\* translated, a failed one is selected and not marked translated, every
\* selected document was started, and the progress pair holds the final
\* counters
C17_OutcomesObservable ==
  bt.pc = "alert" =>
    /\ \A k \in 1..Len(jobs) :
         /\ jobs[k].st = "done" => JobPath(k) \in translatedFiles
         /\ jobs[k].st = "failed" => JobPath(k) \in selectedFiles \ translatedFiles
    /\ \A p \in selectedFiles : \E k \in 1..Len(jobs) : JobPath(k) = p
    /\ batchProgress = [current |-> bt.completed, total |-> bt.total]

\* the entry a store in flight is writing, if any, for document p
InFlightEntries(p) ==
  { CacheEntry(tk.id, generateHash(tk.text), tk.text, tk.translated) :
      x \in { y \in {1} : tk.pc = "storing" /\ tk.id = p } }
    \cup { JobEntry(jobs[k]) :
             k \in { j \in 1..Len(jobs) : jobs[j].st = "storing" /\ JobPath(j) = p } }

\* C18: in every step the entries of a document are either what they were
\* or exactly the complete entry that a store in flight is writing; a lookup
\* waiting on that document can therefore only see the old or the new entry
C18_StoreAtomic ==
  [][\A p \in AllPaths :
       \/ EntriesOf(cache', p) = EntriesOf(cache, p)
       \/ \E e \in InFlightEntries(p) :
            /\ EntriesOf(cache', p) = {e}
            /\ e.hash = generateHash(e.source)]_allVars

\* a loadFile lookup is waiting on a document that has an entry while
\* translateToKorean is about to store another entry for it
C18_Witness ==
  /\ tk.pc = "storing"
  /\ EntriesOf(cache, tk.id) # {}
  /\ EntriesOf(cache, tk.id) # {CacheEntry(tk.id, generateHash(tk.text), tk.text, tk.translated)}
  /\ \E i \in 1..Len(lf) : lf[i].pc = "lookup" /\ PathOf(lf[i].file) = tk.id

\* C19 (as claimed): after the batch, the entry of each document that was
\* translated and stored holds exactly its own fingerprint and translation
C19_EachEntryItsOwn ==
  bt.pc = "alert" =>
    \A k \in 1..Len(jobs) :
      (jobs[k].st = "done" /\ jobs[k].err = "")
        => EntriesOf(cache, JobPath(k)) = {JobEntry(jobs[k])}

\* C20: provided every read, provider and storage call eventually returns or
\* fails, a running batch eventually has every job finished and reaches its
\* completion; and within a batch a finished job stays finished with the
\* outcome it got, it never returns to pending or translating
C20_Termination ==
  /\ (bt.pc = "running") ~> (bt.pc = "alert" /\ Finished(jobs) = 1..Len(jobs))
  /\ [][bt.pc = "running" =>
         \A k \in Finished(jobs) :
            /\ k \in 1..Len(jobs')
            /\ jobs'[k].st = jobs[k].st]_allVars

\* a batch larger than the window on its way: the first jobs have finished,
\* with both outcomes, and the job admitted after them is still translating
C20_Witness ==
  /\ bt.pc = "running"
  /\ \E k \in Finished(jobs) : jobs[k].st = "done"
  /\ \E k \in Finished(jobs) : jobs[k].st = "failed"
  /\ \E k \in Executing(jobs) : k > concurrencyLimit

C22_MarkedOnlyAfterStore ==
  /\ [][bt.pc = "running" =>
         \A p \in (translatedFiles' \ translatedFiles) \cup (cachedFiles' \ cachedFiles) :
            \E k \in 1..Len(jobs) :
               /\ JobPath(k) = p
               /\ jobs[k].st = "storing"
               /\ jobs'[k].st = "done"]_allVars
  /\ [](bt.pc \in {"running", "alert"} =>
         \A k \in 1..Len(jobs) :
            jobs[k].st = "failed" => JobPath(k) \notin translatedFiles)

\* C23 (as claimed): whatever the interleaving of loadFile and
\* translateToKorean was, once they have returned the translation held in
\* translatedContent is a translation of the text held in markdownContent,
\* or is empty
C23_TranslationOfShownDocument ==
  (lf = <<>> /\ tk.pc = "idle") =>
    \/ translatedContent = EmptyStr
    \/ translatedContent \in ProviderAnswers(markdownContent)

\* C24 (as claimed): whenever there is a file tree, the markdown files it
\* shows are exactly the files of fileList, and every path the batch modal
\* offers names exactly one file of fileList
C24_TreeMatchesFileList ==
  fileTree # <<>> =>
    /\ TreeMdFiles(fileTree[1]) = SeqRange(fileList)
    /\ \A p \in ModalPaths :
         Cardinality({ i \in 1..Len(fileList) : PathOf(fileList[i]) = p }) = 1

\* the cache holds a translation stored for this document and this text
HasStored(documentId, text) ==
  getCachedTranslation(cache, documentId, generateHash(text)) # MISS

\* C26 (as claimed): whatever text the provider returned, the empty string
\* included, once it is stored for (documentId, fingerprint) the three
\* readers treat it as a hit: translateToKorean ends without a provider call
\* and shows it as cached, loadFile shows it as cached, and
\* openBatchTranslateModal files the document under cached, not selected
C26_EveryStoredAnswerIsAHit ==
  [][/\ (tk.pc = "lookup" /\ tk' # tk /\ HasStored(tk.id, tk.text))
          => (tk'.pc = "idle" /\ isCached')
     /\ \A i \in 1..Len(lf) :
          (lf[i].pc = "lookup" /\ Len(lf') < Len(lf)
             /\ HasStored(PathOf(lf[i].file), lf[i].file.text))
            => isCached'
     /\ (ob.pc = "scan" /\ ob' # ob
           /\ HasStored(PathOf(ob.files[ob.i]), ob.files[ob.i].text))
          => \/ ob'.pc = "scan" /\ PathOf(ob.files[ob.i]) \in ob'.cached
             \/ ob'.pc = "idle" /\ ~showBatchModal'
             \/ ob'.pc = "idle" /\ PathOf(ob.files[ob.i]) \in cachedFiles'
                  /\ PathOf(ob.files[ob.i]) \notin selectedFiles']_allVars

\* C29: isTranslating is true only while a request of translateToKorean is
\* running, and every step in which a request ends (cache hit, missing
\* credential, provider failure, store returned or failed) leaves it false
C29_IsTranslatingWhileRunning ==
  /\ [](isTranslating => tk.pc # "idle")
  /\ [][(tk.pc # "idle" /\ tk'.pc = "idle") => ~isTranslating']_allVars

\* a request that failed at the provider: the alert is up, the flag still set,
\* an earlier translation is still held
C29_Witness ==
  /\ tk.pc = "alertError"
  /\ isTranslating
  /\ translatedContent # EmptyStr

\* C25 (as claimed): at the moment a batch starts, no selected document is
\* in cachedFiles, under every interleaving with the cache-status check
C25_NoCachedDocumentSubmitted ==
  [][(~isBatchTranslating /\ isBatchTranslating')
       => selectedFiles \cap cachedFiles = {}]_allVars

\* the markdown files that are loaded and whose text has a stored, non-empty
\* translation
LoadedWithTranslation ==
  { PathOf(f) : f \in { g \in SeqRange(IF allFiles # <<>> THEN allFiles ELSE fileList) :
                          /\ isMarkdownFile(g)
                          /\ Truthy(getCachedTranslation(cache, PathOf(g),
                                                         generateHash(g.text))) } }

\* C27 (as claimed): refreshFileList clears cachedFiles, and once the checks
\* it started are over cachedFiles again contains every loaded markdown file
\* (.md or .markdown) whose text has a cached translation
C27_RefreshRebuildsCachedFiles ==
  /\ [][refreshedAtRest' /\ ~refreshedAtRest => cachedFiles' = {}]_allVars
  /\ []((refreshedAtRest /\ checks = <<>>) => LoadedWithTranslation \subseteq cachedFiles)

\* C28 (as claimed): when the batch reaches its completion translatingFiles
\* is empty, and no document is in translatingFiles and in translatedFiles
\* at the same time
C28_TranslatingThenTranslated ==
  /\ bt.pc = "alert" => translatingFiles = {}
  /\ translatingFiles \cap translatedFiles = {}

\* C30 (as claimed): while isBatchTranslating is true the modal stays open,
\* the selection does not change and the submitted files stay the same; the
\* flag is true exactly while a batch is between its start and its return, so
\* one batch runs at a time and the flag is false after it
C30_BatchIsExclusive ==
  /\ [][(isBatchTranslating /\ isBatchTranslating') =>
          /\ showBatchModal'
          /\ selectedFiles' = selectedFiles
          /\ [k \in 1..Len(jobs') |-> jobs'[k].file]
               = [k \in 1..Len(jobs) |-> jobs[k].file]]_allVars
  /\ [](isBatchTranslating <=> bt.pc \in {"running", "alert"})

====
